---- MODULE Spec2Model ----
(***************************************************************************)
(* Backend of the Banter MCP launcher (launcher/src-tauri/src/main.rs).    *)
(* The state is the part of the file system the commands touch; every      *)
(* Tauri command is one action.  serde_json and std::path are modelled by  *)
(* what they do on JSON values and on path strings (Unix separators).      *)
(***************************************************************************)
EXTENDS Naturals, Sequences, FiniteSets, TLC

VARIABLES
    configDir,      \* <config_dir>/banter-mcp: "absent", "dir", or "blocked" (a non-directory sits there)
    configFile,     \* content of launcher-config.json
    registryFile,   \* content of ~/.claude.json
    editorDir,      \* <project>/Assets/Editor: "absent", "dir" or "blocked"
    destFile,       \* content of <project>/Assets/Editor/BanterMCPBridge.cs
    srcFile,        \* content of <mcp_root>/unity-extension/Editor/BanterMCPBridge.cs
    scenePath,      \* the scene path string the user selected
    sceneExists,    \* whether that path exists on disk
    addRes,         \* what add_channel last returned for scenePath
    valRes,         \* what validate_unity_scene last returned for scenePath
    saved,          \* the LauncherConfig of the last successful save_config, if any
    last            \* the last command: its name, arguments, return value and the file system before it

vars == <<configDir, configFile, registryFile, editorDir, destFile, srcFile,
          scenePath, sceneExists, addRes, valRes, saved, last>>

-----------------------------------------------------------------------------
(* Result<T, String>, Option<T>, and a panic that unwinds out of the command *)

Ok(x) == [kind |-> "ok", v |-> x]

Err(m) == [kind |-> "err", msg |-> m]

Panic == [kind |-> "panic"]

Unit == "()"

None == [some |-> FALSE]

Some(x) == [some |-> TRUE, v |-> x]

NoCall == [kind |-> "none"]

-----------------------------------------------------------------------------
(* serde_json::Value *)

JNull == [t |-> "null"]

JBool(b) == [t |-> "bool", b |-> b]

JNum(n) == [t |-> "num", n |-> n]

JStr(s) == [t |-> "str", s |-> s]

JArr(a) == [t |-> "arr", a |-> a]

JObj(o) == [t |-> "obj", o |-> o]

EmptyMap == [k \in {} |-> JNull]

IsObj(v) == v.t = "obj"

HasKey(v, k) == IsObj(v) /\ k \in DOMAIN v.o

\* Value::get(key): the member of an object, None for a missing key or a non-object
Get(v, k) == IF HasKey(v, k) THEN Some(v.o[k]) ELSE None

MapInsert(o, k, x) == [y \in (DOMAIN o) \cup {k} |-> IF y = k THEN x ELSE o[y]]

MapRemove(o, k) == [y \in (DOMAIN o) \ {k} |-> o[y]]

\* `v[k] = x` (IndexMut<&str>): null becomes an object, an object takes the
\* member, every other value panics ("cannot access key in JSON ...")
IndexAssign(v, k, x) ==
    IF v.t = "null" THEN JObj(MapInsert(EmptyMap, k, x))
    ELSE IF IsObj(v) THEN JObj(MapInsert(v.o, k, x))
    ELSE Panic

\* `v[k1][k2] = x`: v[k1] is looked up or inserted as null, then assigned into
IndexAssign2(v, k1, k2, x) ==
    LET outer == IF v.t = "null" THEN JObj(EmptyMap) ELSE v
    IN  IF ~IsObj(outer) THEN Panic
        ELSE LET inner == IF k1 \in DOMAIN outer.o THEN outer.o[k1] ELSE JNull
                 assigned == IndexAssign(inner, k2, x)
             IN  IF assigned = Panic THEN Panic
                 ELSE JObj(MapInsert(outer.o, k1, assigned))

-----------------------------------------------------------------------------
(* File contents.  A text file either parses as JSON, to `doc`, or does not. *)

Absent == [k |-> "absent"]

NonUtf8 == [k |-> "bytes"]

BadJson == [k |-> "text", json |-> FALSE]

JsonText(v) == [k |-> "text", json |-> TRUE, doc |-> v]

Exists(f) == f.k # "absent"

\* fs::read_to_string: fails on content that is not UTF-8
read_to_string(f) == IF f.k = "text" THEN Ok(f) ELSE Err("read")

\* serde_json::from_str::<Value>
from_str(text) == IF text.json THEN Ok(text.doc) ELSE Err("parse")

\* serde_json::to_string_pretty of a Value: a text that parses back to it
to_string_pretty(v) == JsonText(v)

FS ==
    [configDir |-> configDir, configFile |-> configFile, registryFile |-> registryFile,
     editorDir |-> editorDir, destFile |-> destFile, srcFile |-> srcFile]

-----------------------------------------------------------------------------
(* External registry editor: ~/.claude.json *)

\* the launch descriptor written under mcpServers.banter (main.rs 168-180)
BanterEntry(channel, mcp_server_path) ==
    LET env0 == MapInsert(EmptyMap, "UNITY_PROJECT_PATH", JStr(channel.unity_project_path))
        env  == IF channel.scene_path.some
                THEN MapInsert(env0, "UNITY_SCENE_PATH", JStr(channel.scene_path.v))
                ELSE env0
    IN  JObj([key \in {"command", "args", "env"} |->
                IF key = "command" THEN JStr("node")
                ELSE IF key = "args" THEN JArr(<<JStr(mcp_server_path)>>)
                ELSE JObj(env)])

\* Each handler maps the registry file to the value it returns and the file it leaves.

\* variant: rebuilds mcpServers from scratch instead of inserting into it
update_rebuilds_servers(file, channel, mcp_server_path) ==
    IF Exists(file) /\ read_to_string(file).kind = "err"
    THEN [ret |-> Err("Failed to read Claude config"), file |-> file]
    ELSE LET config0 == IF Exists(file) /\ file.json THEN file.doc ELSE JObj(EmptyMap)
             servers == JObj(MapInsert(EmptyMap, "banter", BanterEntry(channel, mcp_server_path)))
             config1 == IndexAssign(config0, "mcpServers", servers)
         IN  IF config1 = Panic THEN [ret |-> Panic, file |-> file]
             ELSE [ret |-> Ok(Unit), file |-> to_string_pretty(config1)]

\* variant: propagates the parse error like the other two handlers
update_strict(file, channel, mcp_server_path) ==
    IF Exists(file) /\ read_to_string(file).kind = "err"
    THEN [ret |-> Err("Failed to read Claude config"), file |-> file]
    ELSE IF Exists(file) /\ ~file.json
    THEN [ret |-> Err("Failed to parse Claude config"), file |-> file]
    ELSE LET config0 == IF Exists(file) THEN file.doc ELSE JObj(EmptyMap)
             config1 == IF ~Get(config0, "mcpServers").some
                        THEN IndexAssign(config0, "mcpServers", JObj(EmptyMap))
                        ELSE config0
             config2 == IF config1 = Panic THEN Panic
                        ELSE IndexAssign2(config1, "mcpServers", "banter",
                                          BanterEntry(channel, mcp_server_path))
         IN  IF config2 = Panic THEN [ret |-> Panic, file |-> file]
             ELSE [ret |-> Ok(Unit), file |-> to_string_pretty(config2)]

\* variant: removes the whole mcpServers member
remove_drops_servers(file) ==
    IF ~Exists(file) THEN [ret |-> Ok(Unit), file |-> file]
    ELSE IF read_to_string(file).kind = "err"
    THEN [ret |-> Err("Failed to read Claude config"), file |-> file]
    ELSE IF ~file.json
    THEN [ret |-> Err("Failed to parse Claude config"), file |-> file]
    ELSE [ret |-> Ok(Unit),
          file |-> to_string_pretty(IF HasKey(file.doc, "mcpServers")
                                    THEN JObj(MapRemove(file.doc.o, "mcpServers"))
                                    ELSE file.doc)]

get_claude_mcp_config(file) ==
    IF Exists(file)
    THEN LET content == read_to_string(file)
         IN  IF content.kind = "err"
             THEN [ret |-> Err("Failed to read Claude config"), file |-> file]
             ELSE LET parsed == from_str(content.v)
                  IN  IF parsed.kind = "err"
                      THEN [ret |-> Err("Failed to parse Claude config"), file |-> file]
                      ELSE [ret |-> Ok(parsed.v), file |-> file]
    ELSE [ret |-> Ok(JObj(EmptyMap)), file |-> file]

update_claude_mcp_config(file, channel, mcp_server_path) ==
    LET content == read_to_string(file)
    IN  IF Exists(file) /\ content.kind = "err"
        THEN [ret |-> Err("Failed to read Claude config"), file |-> file]
        ELSE
        LET config0 == IF Exists(file)
                       THEN LET parsed == from_str(content.v)
                            IN  IF parsed.kind = "ok" THEN parsed.v ELSE JObj(EmptyMap)
                       ELSE JObj(EmptyMap)
            config1 == IF ~Get(config0, "mcpServers").some
                       THEN IndexAssign(config0, "mcpServers", JObj(EmptyMap))
                       ELSE config0
            config2 == IF config1 = Panic THEN Panic
                       ELSE IndexAssign2(config1, "mcpServers", "banter",
                                         BanterEntry(channel, mcp_server_path))
        IN  IF config2 = Panic
            THEN [ret |-> Panic, file |-> file]
            ELSE [ret |-> Ok(Unit), file |-> to_string_pretty(config2)]

remove_claude_mcp_config(file) ==
    IF ~Exists(file) THEN [ret |-> Ok(Unit), file |-> file]
    ELSE
    LET content == read_to_string(file)
    IN  IF content.kind = "err"
        THEN [ret |-> Err("Failed to read Claude config"), file |-> file]
        ELSE
        LET parsed == from_str(content.v)
        IN  IF parsed.kind = "err"
            THEN [ret |-> Err("Failed to parse Claude config"), file |-> file]
            ELSE
            LET config  == parsed.v
                servers == Get(config, "mcpServers")
                config1 == IF servers.some /\ IsObj(servers.v)
                           THEN JObj(MapInsert(config.o, "mcpServers",
                                               JObj(MapRemove(servers.v.o, "banter"))))
                           ELSE config
            IN  [ret |-> Ok(Unit), file |-> to_string_pretty(config1)]

-----------------------------------------------------------------------------
(* ProjectChannel and LauncherConfig, and their derived serde conversions *)

ChannelFields == <<"id", "name", "unity_project_path", "scene_path", "enabled">>

ConfigFields == <<"channels", "active_channel_id", "mcp_server_path", "auto_start">>

\* Option<String> serializes to null or to the string
OptToJson(o) == IF o.some THEN JStr(o.v) ELSE JNull

\* #[derive(Serialize)] on ProjectChannel (main.rs 9-16)
ChannelToJson(c) ==
    JObj([key \in {ChannelFields[i] : i \in 1..Len(ChannelFields)} |->
            IF key = "id" THEN JStr(c.id)
            ELSE IF key = "name" THEN JStr(c.name)
            ELSE IF key = "unity_project_path" THEN JStr(c.unity_project_path)
            ELSE IF key = "scene_path" THEN OptToJson(c.scene_path)
            ELSE JBool(c.enabled)])

\* #[derive(Serialize)] on LauncherConfig (main.rs 19-25)
ConfigToJson(c) ==
    JObj([key \in {ConfigFields[i] : i \in 1..Len(ConfigFields)} |->
            IF key = "channels"
            THEN JArr([i \in 1..Len(c.channels) |-> ChannelToJson(c.channels[i])])
            ELSE IF key = "active_channel_id" THEN OptToJson(c.active_channel_id)
            ELSE IF key = "mcp_server_path" THEN JStr(c.mcp_server_path)
            ELSE JBool(c.auto_start)])

\* The members a derived Deserialize reads: by name from an object (unknown
\* members ignored), by position from an array of exactly the struct's length.
StructFields(v, fields) ==
    IF IsObj(v) THEN Some([i \in 1..Len(fields) |-> Get(v, fields[i])])
    ELSE IF v.t = "arr" /\ Len(v.a) = Len(fields)
         THEN Some([i \in 1..Len(fields) |-> Some(v.a[i])])
         ELSE None

\* a String / bool member: required; an Option<String> member: missing or null is None
IsStrField(f) == f.some /\ f.v.t = "str"

IsBoolField(f) == f.some /\ f.v.t = "bool"

IsOptStrField(f) == ~f.some \/ f.v.t \in {"null", "str"}

OptStrField(f) == IF f.some /\ f.v.t = "str" THEN Some(f.v.s) ELSE None

ChannelFromJson(v) ==
    LET f == StructFields(v, ChannelFields)
    IN  IF f.some /\ IsStrField(f.v[1]) /\ IsStrField(f.v[2]) /\ IsStrField(f.v[3])
           /\ IsOptStrField(f.v[4]) /\ IsBoolField(f.v[5])
        THEN Ok([id |-> f.v[1].v.s, name |-> f.v[2].v.s,
                 unity_project_path |-> f.v[3].v.s,
                 scene_path |-> OptStrField(f.v[4]), enabled |-> f.v[5].v.b])
        ELSE Err("parse")

\* variant: clears an active_channel_id that names no channel of the list
ConfigFromJson_clears_dangling(v) ==
    LET f == StructFields(v, ConfigFields)
    IN  IF f.some /\ f.v[1].some /\ f.v[1].v.t = "arr"
           /\ (\A i \in 1..Len(f.v[1].v.a) : ChannelFromJson(f.v[1].v.a[i]).kind = "ok")
           /\ IsOptStrField(f.v[2]) /\ IsStrField(f.v[3]) /\ IsBoolField(f.v[4])
        THEN LET channels == [i \in 1..Len(f.v[1].v.a) |-> ChannelFromJson(f.v[1].v.a[i]).v]
                 active == OptStrField(f.v[2])
             IN  Ok([channels |-> channels,
                     active_channel_id |->
                         IF active.some /\ \E i \in 1..Len(channels) : channels[i].id = active.v
                         THEN active ELSE None,
                     mcp_server_path |-> f.v[3].v.s, auto_start |-> f.v[4].v.b])
        ELSE Err("parse")

ConfigFromJson(v) ==
    LET f == StructFields(v, ConfigFields)
    IN  IF f.some /\ f.v[1].some /\ f.v[1].v.t = "arr"
           /\ (\A i \in 1..Len(f.v[1].v.a) : ChannelFromJson(f.v[1].v.a[i]).kind = "ok")
           /\ IsOptStrField(f.v[2]) /\ IsStrField(f.v[3]) /\ IsBoolField(f.v[4])
        THEN Ok([channels |-> [i \in 1..Len(f.v[1].v.a) |-> ChannelFromJson(f.v[1].v.a[i]).v],
                 active_channel_id |-> OptStrField(f.v[2]),
                 mcp_server_path |-> f.v[3].v.s, auto_start |-> f.v[4].v.b])
        ELSE Err("parse")

DefaultConfig ==
    [channels |-> <<>>, active_channel_id |-> None,
     mcp_server_path |-> "C:/tools/banter-mcp/dist/index.js", auto_start |-> FALSE]

-----------------------------------------------------------------------------
(* Local config store: <config_dir>/banter-mcp/launcher-config.json *)

\* get_config_path: create_dir_all(..).ok() makes the directory unless
\* something that is not a directory is in the way; the error is dropped
get_config_path(dir) == IF dir = "absent" THEN "dir" ELSE dir

\* variant: writes the defaults out when no file exists
load_config_creates_file(dir, file) ==
    LET dir1 == get_config_path(dir)
    IN  IF Exists(file)
        THEN IF file.k = "text" /\ file.json /\ ConfigFromJson(file.doc).kind = "ok"
             THEN [ret |-> Ok(ConfigFromJson(file.doc).v), dir |-> dir1, file |-> file]
             ELSE [ret |-> Err(IF file.k = "text" THEN "Failed to parse config"
                               ELSE "Failed to read config"), dir |-> dir1, file |-> file]
        ELSE [ret |-> Ok(DefaultConfig), dir |-> dir1,
              file |-> IF dir1 = "dir" THEN to_string_pretty(ConfigToJson(DefaultConfig)) ELSE file]

\* variant: deletes a config file it cannot parse
load_config_deletes_unparsable(dir, file) ==
    LET dir1 == get_config_path(dir)
    IN  IF Exists(file)
        THEN IF file.k = "text" /\ file.json /\ ConfigFromJson(file.doc).kind = "ok"
             THEN [ret |-> Ok(ConfigFromJson(file.doc).v), dir |-> dir1, file |-> file]
             ELSE IF file.k = "text"
                  THEN [ret |-> Err("Failed to parse config"), dir |-> dir1, file |-> Absent]
                  ELSE [ret |-> Err("Failed to read config"), dir |-> dir1, file |-> file]
        ELSE [ret |-> Ok(DefaultConfig), dir |-> dir1, file |-> file]

load_config(dir, file) ==
    LET dir1 == get_config_path(dir)
    IN  IF Exists(file)
        THEN LET content == read_to_string(file)
             IN  IF content.kind = "err"
                 THEN [ret |-> Err("Failed to read config"), dir |-> dir1, file |-> file]
                 ELSE LET parsed == IF content.v.json THEN ConfigFromJson(content.v.doc)
                                    ELSE Err("parse")
                      IN  IF parsed.kind = "err"
                          THEN [ret |-> Err("Failed to parse config"), dir |-> dir1, file |-> file]
                          ELSE [ret |-> Ok(parsed.v), dir |-> dir1, file |-> file]
        ELSE [ret |-> Ok(DefaultConfig), dir |-> dir1, file |-> file]

save_config(dir, file, config) ==
    LET dir1 == get_config_path(dir)
        content == to_string_pretty(ConfigToJson(config))
    IN  IF dir1 = "dir"
        THEN [ret |-> Ok(Unit), dir |-> dir1, file |-> content]
        ELSE [ret |-> Err("Failed to write config"), dir |-> dir1, file |-> file]

-----------------------------------------------------------------------------
(* Unity extension installer: <project>/Assets/Editor/BanterMCPBridge.cs *)

check_unity_extension(dest) == Ok(Exists(dest))

install_unity_extension(dir, dest, src) ==
    IF dir = "blocked"
    THEN [ret |-> Err("Failed to create Editor directory"), dir |-> dir, dest |-> dest]
    ELSE IF ~Exists(src)
         THEN [ret |-> Err("Failed to copy extension"), dir |-> "dir", dest |-> dest]
         ELSE [ret |-> Ok(Unit), dir |-> "dir", dest |-> src]

-----------------------------------------------------------------------------
(* std::path on Unix.  A path string is a sequence of characters; the words *)
(* "Assets", "unity" and "p" stand for themselves as single characters.     *)

\* std::path::Components: has_physical_root, include_cur_dir, len_before_body
HasRoot(s) == Len(s) >= 1 /\ s[1] = "/"

IncludeCurDir(s) == ~HasRoot(s) /\ Len(s) >= 1 /\ s[1] = "." /\ (Len(s) = 1 \/ s[2] = "/")

LenBeforeBody(s) == (IF HasRoot(s) THEN 1 ELSE 0) + (IF IncludeCurDir(s) THEN 1 ELSE 0)

\* Components::parse_single_component: "" and "." are dropped, ".." is ParentDir
parse_single_component(comp) ==
    IF comp = <<>> \/ comp = <<".">> THEN None
    ELSE IF comp = <<".", ".">> THEN Some([kind |-> "ParentDir", name |-> comp])
    ELSE Some([kind |-> "Normal", name |-> comp])

\* Components::parse_next_component_back: the text after the last separator of the body
parse_next_component_back(s) ==
    LET start == LenBeforeBody(s)
        seps  == {i \in (start + 1)..Len(s) : s[i] = "/"}
        comp  == IF seps = {} THEN SubSeq(s, start + 1, Len(s))
                 ELSE SubSeq(s, (CHOOSE i \in seps : \A j \in seps : j <= i) + 1, Len(s))
    IN  [size |-> Len(comp) + (IF seps = {} THEN 0 ELSE 1), comp |-> parse_single_component(comp)]

\* Components::next_back: the last component and the path left in front of it
RECURSIVE next_back(_)
next_back(s) ==
    IF Len(s) > LenBeforeBody(s)
    THEN LET p == parse_next_component_back(s)
             rest == SubSeq(s, 1, Len(s) - p.size)
         IN  IF p.comp.some THEN [comp |-> p.comp, rest |-> rest] ELSE next_back(rest)
    ELSE IF HasRoot(s)
         THEN [comp |-> Some([kind |-> "RootDir", name |-> <<"/">>]), rest |-> SubSeq(s, 1, Len(s) - 1)]
         ELSE IF IncludeCurDir(s)
              THEN [comp |-> Some([kind |-> "CurDir", name |-> <<".">>]), rest |-> SubSeq(s, 1, Len(s) - 1)]
              ELSE [comp |-> None, rest |-> s]

\* Components::trim_right (through as_path): drop trailing separators and "." components
RECURSIVE trim_right(_)
trim_right(s) ==
    IF Len(s) > LenBeforeBody(s)
    THEN LET p == parse_next_component_back(s)
         IN  IF p.comp.some THEN s ELSE trim_right(SubSeq(s, 1, Len(s) - p.size))
    ELSE s

\* Path::parent
parent(s) ==
    LET b == next_back(s)
    IN  IF b.comp.some /\ b.comp.v.kind \in {"Normal", "CurDir", "ParentDir"}
        THEN Some(IF b.comp.v.kind = "CurDir" THEN b.rest ELSE trim_right(b.rest))
        ELSE None

\* Path::file_name
file_name(s) ==
    LET b == next_back(s)
    IN  IF b.comp.some /\ b.comp.v.kind = "Normal" THEN Some(b.comp.v.name) ELSE None

\* Path::extension (rsplit_file_at_dot): the text after the last dot of the
\* file name, unless the name has no dot or only a leading one
extension(s) ==
    LET f == file_name(s)
    IN  IF ~f.some THEN None
        ELSE LET name == f.v
                 dots == {i \in 1..Len(name) : name[i] = "."}
                 d    == CHOOSE i \in dots : \A j \in dots : j <= i
             IN  IF dots = {} \/ d = 1 THEN None
                 ELSE Some(SubSeq(name, d + 1, Len(name)))

\* str::replace("\\", "/")
replace_backslash(s) == [i \in 1..Len(s) |-> IF s[i] = "\\" THEN "/" ELSE s[i]]

\* str::contains
contains(s, pat) ==
    \E i \in 0..(Len(s) - Len(pat)) : SubSeq(s, i + 1, i + Len(pat)) = pat

-----------------------------------------------------------------------------
(* Channel builder *)

\* the `while let Some(dir) = current` walk of add_channel (main.rs 83-92)
RECURSIVE find_project_path(_)
find_project_path(current) ==
    IF ~current.some THEN None
    ELSE IF file_name(current.v) = Some(<<"Assets">>) THEN parent(current.v)
    ELSE find_project_path(parent(current.v))

\* variant: checks the extension before it checks that the file exists
add_channel_extension_first(name, scene_path, exists, id) ==
    IF extension(scene_path) # Some(<<"unity">>)
    THEN Err("Not a valid Unity scene file (must be .unity)")
    ELSE IF ~exists THEN Err("Scene file does not exist")
    ELSE LET project_path == find_project_path(parent(scene_path))
         IN  IF ~project_path.some
             THEN Err("Could not find Unity project root (no Assets folder in path)")
             ELSE Ok([id |-> id, name |-> name, unity_project_path |-> project_path.v,
                      scene_path |-> Some(scene_path), enabled |-> TRUE])

\* variant: keeps walking up and takes the outermost Assets directory
RECURSIVE find_outermost_project_path(_, _)
find_outermost_project_path(current, found) ==
    IF ~current.some THEN found
    ELSE find_outermost_project_path(
             parent(current.v),
             IF file_name(current.v) = Some(<<"Assets">>) THEN parent(current.v) ELSE found)

add_channel_outermost(name, scene_path, exists, id) ==
    IF ~exists THEN Err("Scene file does not exist")
    ELSE IF extension(scene_path) # Some(<<"unity">>)
    THEN Err("Not a valid Unity scene file (must be .unity)")
    ELSE LET project_path == find_outermost_project_path(parent(scene_path), None)
         IN  IF ~project_path.some
             THEN Err("Could not find Unity project root (no Assets folder in path)")
             ELSE Ok([id |-> id, name |-> name, unity_project_path |-> project_path.v,
                      scene_path |-> Some(scene_path), enabled |-> TRUE])

add_channel(name, scene_path, exists, id) ==
    IF ~exists THEN Err("Scene file does not exist")
    ELSE IF extension(scene_path) # Some(<<"unity">>)
    THEN Err("Not a valid Unity scene file (must be .unity)")
    ELSE LET project_path == find_project_path(parent(scene_path))
         IN  IF ~project_path.some
             THEN Err("Could not find Unity project root (no Assets folder in path)")
             ELSE Ok([id |-> id, name |-> name, unity_project_path |-> project_path.v,
                      scene_path |-> Some(scene_path), enabled |-> TRUE])

\* variant: looks for /Assets/ without converting backslashes first
validate_without_replace(path, exists) ==
    IF ~exists THEN Ok(FALSE)
    ELSE IF extension(path) # Some(<<"unity">>) THEN Ok(FALSE)
    ELSE Ok(contains(path, <<"/", "Assets", "/">>))

validate_unity_scene(path, exists) ==
    IF ~exists THEN Ok(FALSE)
    ELSE IF extension(path) # Some(<<"unity">>) THEN Ok(FALSE)
    ELSE Ok(contains(replace_backslash(path), <<"/", "Assets", "/">>))

get_mcp_root == Ok("C:/tools/banter-mcp")

-----------------------------------------------------------------------------
(* Inputs *)

MaxPieces == 5

MaxChannels == 2

Uuids == {"uuid-1", "uuid-2"}

Names == {"X", "Y"}

ServerPaths == {"C:/tools/banter-mcp/dist/index.js", "/opt/mcp/index.js"}

Channel(id, project, scene, enabled) ==
    [id |-> id, name |-> "X", unity_project_path |-> project, scene_path |-> scene,
     enabled |-> enabled]

\* channels handed to update_claude_mcp_config
ChannelInputs ==
    {Channel("uuid-1", project, scene, TRUE) :
        project \in {"/proj", "/other"},
        scene \in {None, Some("/proj/Assets/Scenes/Main.unity")}}

\* channels held in a LauncherConfig
StoredChannels ==
    {Channel("uuid-1", "/proj", None, TRUE),
     Channel("uuid-2", "/proj", Some("/proj/Assets/Scenes/Main.unity"), FALSE)}

SeqsUpTo(S, n) == UNION {[1..m -> S] : m \in 0..n}

ConfigInputs ==
    {[channels |-> cs, active_channel_id |-> a,
      mcp_server_path |-> "C:/tools/banter-mcp/dist/index.js", auto_start |-> b] :
        cs \in SeqsUpTo(StoredChannels, MaxChannels),
        a \in {None, Some("uuid-1"), Some("no-such-channel")},
        b \in BOOLEAN}

SmallConfigInputs ==
    {DefaultConfig,
     [channels |-> <<Channel("uuid-1", "/proj", None, TRUE)>>, active_channel_id |-> Some("uuid-1"),
      mcp_server_path |-> "/opt/mcp/index.js", auto_start |-> TRUE]}

\* path strings: up to MaxPieces pieces put side by side
Pieces == {<<"/">>, <<"\\">>, <<".">>, <<"Assets">>, <<"p", ".", "unity">>}

RECURSIVE PathsUpTo(_)
PathsUpTo(n) ==
    IF n = 0 THEN {<<>>}
    ELSE LET shorter == PathsUpTo(n - 1)
         IN  shorter \cup {s \o q : s \in shorter, q \in Pieces}

PathInputs == PathsUpTo(MaxPieces)

SmallPathInputs ==
    {<<"/", "p", "/", "Assets", "/", "p", ".", "unity">>,
     <<"/", "p", "/", "p", ".", "unity">>,
     <<"/", "p", "/", "Assets", "/", "p">>}

SmallConfigFiles == {<<"absent", Absent>>, <<"blocked", Absent>>, <<"dir", BadJson>>}

SmallChannelInputs == {Channel("uuid-1", "/proj", Some("/proj/Assets/Scenes/Main.unity"), TRUE)}

SmallServerPaths == {"/opt/mcp/index.js"}

\* registry documents found on disk
OtherTool == JObj(MapInsert(EmptyMap, "command", JStr("npx")))

OldBanters ==
    {BanterEntry(Channel("uuid-1", "/old", Some("/old/Assets/Old.unity"), TRUE), "/old/index.js"),
     JObj(MapInsert(EmptyMap, "env", JObj(MapInsert(EmptyMap, "EXTRA", JStr("1"))))),
     JStr("disabled")}

ServerMaps ==
    {EmptyMap, MapInsert(EmptyMap, "other-tool", OtherTool)}
    \cup {MapInsert(EmptyMap, "banter", b) : b \in OldBanters}
    \cup {MapInsert(MapInsert(EmptyMap, "other-tool", OtherTool), "banter", b) : b \in OldBanters}

NonObjects == {JNull, JBool(TRUE), JNum(1), JStr("s"), JArr(<<>>)}

TopLevelMaps ==
    LET base == {EmptyMap, MapInsert(EmptyMap, "otherSetting", JBool(TRUE))}
    IN  base \cup {MapInsert(m, "mcpServers", v) :
                      m \in base, v \in NonObjects \cup {JObj(sm) : sm \in ServerMaps}}

RegistryFiles ==
    {Absent, NonUtf8, BadJson} \cup {JsonText(v) : v \in NonObjects}
    \cup {JsonText(JObj(m)) : m \in TopLevelMaps}

SmallRegistryFiles == {Absent, NonUtf8, BadJson}

\* config files found on disk: the directory exists whenever the file does
ConfigFiles ==
    {<<"absent", Absent>>, <<"blocked", Absent>>, <<"dir", Absent>>, <<"dir", NonUtf8>>,
     <<"dir", BadJson>>, <<"dir", JsonText(JObj(EmptyMap))>>,
     <<"dir", JsonText(JArr(<<JArr(<<>>), JNull, JStr("m"), JBool(TRUE)>>))>>,
     <<"dir", JsonText(ConfigToJson(DefaultConfig))>>}

\* <project>/Assets/Editor and the installed file: the file needs the directory
BridgeFile(version) == [k |-> "cs", version |-> version]

EditorDirs ==
    {<<"absent", Absent>>, <<"blocked", Absent>>, <<"dir", Absent>>, <<"dir", BridgeFile("old")>>}

SourceFiles == {Absent, BridgeFile("new")}

-----------------------------------------------------------------------------
(* The commands registered with the invoke handler (main.rs 262-273) *)

Called(op, arg, ret) == [op |-> op, arg |-> arg, ret |-> ret, pre |-> FS]

cfgVars == <<configDir, configFile>>

extVars == <<editorDir, destFile, srcFile>>

sceneVars == <<scenePath, sceneExists>>

LoadConfig ==
    LET r == load_config(configDir, configFile)
    IN  /\ configDir' = r.dir
        /\ configFile' = r.file
        /\ last' = Called("load_config", <<>>, r.ret)
        /\ UNCHANGED <<registryFile, extVars, sceneVars, addRes, valRes, saved>>

SaveConfig(configs) ==
    \E config \in configs :
        LET r == save_config(configDir, configFile, config)
        IN  /\ configDir' = r.dir
            /\ configFile' = r.file
            /\ saved' = IF r.ret.kind = "ok" THEN Some(config) ELSE saved
            /\ last' = Called("save_config", config, r.ret)
            /\ UNCHANGED <<registryFile, extVars, sceneVars, addRes, valRes>>

AddChannel(names, uuids) ==
    \E name \in names, id \in uuids :
        LET r == add_channel(name, scenePath, sceneExists, id)
        IN  /\ addRes' = r
            /\ last' = Called("add_channel", [name |-> name, scene_path |-> scenePath], r)
            /\ UNCHANGED <<cfgVars, saved, registryFile, extVars, sceneVars, valRes>>

ValidateUnityScene ==
    LET r == validate_unity_scene(scenePath, sceneExists)
    IN  /\ valRes' = r
        /\ last' = Called("validate_unity_scene", scenePath, r)
        /\ UNCHANGED <<cfgVars, saved, registryFile, extVars, sceneVars, addRes>>

GetClaudeMcpConfig ==
    LET r == get_claude_mcp_config(registryFile)
    IN  /\ registryFile' = r.file
        /\ last' = Called("get_claude_mcp_config", <<>>, r.ret)
        /\ UNCHANGED <<cfgVars, saved, extVars, sceneVars, addRes, valRes>>

UpdateClaudeMcpConfig(channels, paths) ==
    \E channel \in channels, mcp_server_path \in paths :
        LET r == update_claude_mcp_config(registryFile, channel, mcp_server_path)
        IN  /\ registryFile' = r.file
            /\ last' = Called("update_claude_mcp_config",
                              [channel |-> channel, mcp_server_path |-> mcp_server_path], r.ret)
            /\ UNCHANGED <<cfgVars, saved, extVars, sceneVars, addRes, valRes>>

RemoveClaudeMcpConfig ==
    LET r == remove_claude_mcp_config(registryFile)
    IN  /\ registryFile' = r.file
        /\ last' = Called("remove_claude_mcp_config", <<>>, r.ret)
        /\ UNCHANGED <<cfgVars, saved, extVars, sceneVars, addRes, valRes>>

CheckUnityExtension ==
    /\ last' = Called("check_unity_extension", <<>>, check_unity_extension(destFile))
    /\ UNCHANGED <<cfgVars, saved, registryFile, extVars, sceneVars, addRes, valRes>>

InstallUnityExtension ==
    LET r == install_unity_extension(editorDir, destFile, srcFile)
    IN  /\ editorDir' = r.dir
        /\ destFile' = r.dest
        /\ last' = Called("install_unity_extension", <<>>, r.ret)
        /\ UNCHANGED <<cfgVars, saved, registryFile, srcFile, sceneVars, addRes, valRes>>

GetMcpRoot ==
    /\ last' = Called("get_mcp_root", <<>>, get_mcp_root)
    /\ UNCHANGED <<cfgVars, saved, registryFile, extVars, sceneVars, addRes, valRes>>

-----------------------------------------------------------------------------
(* Specifications *)

InitWith(configs, registries, editors, sources, paths) ==
    /\ \E c \in configs : configDir = c[1] /\ configFile = c[2]
    /\ registryFile \in registries
    /\ \E e \in editors : editorDir = e[1] /\ destFile = e[2]
    /\ srcFile \in sources
    /\ scenePath \in paths
    /\ sceneExists \in BOOLEAN
    /\ addRes = NoCall
    /\ valRes = NoCall
    /\ saved = None
    /\ last = Called("start", <<>>, NoCall)

\* every command, on a small file system
Init ==
    InitWith(SmallConfigFiles, SmallRegistryFiles, EditorDirs \ {<<"dir", Absent>>},
             SourceFiles, SmallPathInputs)

Next ==
    \/ LoadConfig
    \/ SaveConfig(SmallConfigInputs)
    \/ AddChannel({"X"}, {"uuid-1"})
    \/ ValidateUnityScene
    \/ GetClaudeMcpConfig
    \/ UpdateClaudeMcpConfig(SmallChannelInputs, SmallServerPaths)
    \/ RemoveClaudeMcpConfig
    \/ CheckUnityExtension
    \/ InstallUnityExtension
    \/ GetMcpRoot

Spec == Init /\ [][Next]_vars

\* the local config store
InitConfig ==
    InitWith(ConfigFiles, {Absent}, {<<"absent", Absent>>}, {Absent}, {<<>>}) /\ ~sceneExists

NextConfig == LoadConfig \/ SaveConfig(ConfigInputs)

SpecConfig == InitConfig /\ [][NextConfig]_vars

\* the external registry editor
InitRegistry ==
    InitWith({<<"absent", Absent>>}, RegistryFiles, {<<"absent", Absent>>}, {Absent}, {<<>>})
    /\ ~sceneExists

NextRegistry ==
    \/ GetClaudeMcpConfig
    \/ UpdateClaudeMcpConfig(ChannelInputs, ServerPaths)
    \/ RemoveClaudeMcpConfig

SpecRegistry == InitRegistry /\ [][NextRegistry]_vars

\* the channel builder, over every path string of PathInputs
InitScene ==
    InitWith({<<"dir", JsonText(ConfigToJson(DefaultConfig))>>},
             {Absent}, {<<"absent", Absent>>}, {Absent}, PathInputs)

NextScene == AddChannel(Names, Uuids) \/ ValidateUnityScene

SpecScene == InitScene /\ [][NextScene]_vars

-----------------------------------------------------------------------------
(* Properties of the external registry editor (under SpecRegistry) *)

IsJsonFile(f) == f.k = "text" /\ f.json

Servers(doc) == IF HasKey(doc, "mcpServers") THEN doc.o["mcpServers"] ELSE JObj(EmptyMap)

\* the entry the registry must hold for a channel, written out member by member
IsEntryFor(e, channel, mcp_server_path) ==
    /\ IsObj(e)
    /\ DOMAIN e.o = {"command", "args", "env"}
    /\ e.o["command"] = JStr("node")
    /\ e.o["args"] = JArr(<<JStr(mcp_server_path)>>)
    /\ IsObj(e.o["env"])
    /\ DOMAIN e.o["env"].o =
          {"UNITY_PROJECT_PATH"} \cup (IF channel.scene_path.some THEN {"UNITY_SCENE_PATH"} ELSE {})
    /\ e.o["env"].o["UNITY_PROJECT_PATH"] = JStr(channel.unity_project_path)
    /\ channel.scene_path.some => e.o["env"].o["UNITY_SCENE_PATH"] = JStr(channel.scene_path.v)

\* new is old with member k set or removed and nothing else touched
SameExcept(old, new, k) ==
    /\ (DOMAIN new) \ {k} = (DOMAIN old) \ {k}
    /\ \A y \in (DOMAIN old) \ {k} : new[y] = old[y]

\* C1: a successful upsert on an object document whose mcpServers is absent or
\* an object keeps every other top-level key and every other server entry, and
\* sets mcpServers.banter to exactly the entry for the channel (nothing of an
\* earlier banter entry survives).
C1_UpsertPreservesSiblings ==
    (/\ last.op = "update_claude_mcp_config"
     /\ last.ret.kind = "ok"
     /\ IsJsonFile(last.pre.registryFile)
     /\ IsObj(last.pre.registryFile.doc)
     /\ IsObj(Servers(last.pre.registryFile.doc)))
    => LET old == last.pre.registryFile.doc
           new == registryFile.doc
       IN  /\ IsJsonFile(registryFile)
           /\ IsObj(new)
           /\ SameExcept(old.o, new.o, "mcpServers")
           /\ HasKey(new, "mcpServers")
           /\ IsObj(new.o["mcpServers"])
           /\ SameExcept(Servers(old).o, new.o["mcpServers"].o, "banter")
           /\ HasKey(new.o["mcpServers"], "banter")
           /\ IsEntryFor(new.o["mcpServers"].o["banter"], last.arg.channel, last.arg.mcp_server_path)

C1_Witness ==
    /\ last.op = "update_claude_mcp_config"
    /\ last.ret.kind = "ok"
    /\ IsJsonFile(last.pre.registryFile)
    /\ HasKey(last.pre.registryFile.doc, "otherSetting")
    /\ HasKey(Servers(last.pre.registryFile.doc), "other-tool")
    /\ HasKey(Servers(last.pre.registryFile.doc), "banter")
    /\ HasKey(Servers(last.pre.registryFile.doc).o["banter"], "env")
    /\ HasKey(Servers(last.pre.registryFile.doc).o["banter"].o["env"], "UNITY_SCENE_PATH")
    /\ ~last.arg.channel.scene_path.some

\* C4: on every registry file that parses as JSON, whatever its shape, upsert
\* returns success or an error string (it never aborts), and on success the
\* document holds an object under mcpServers that contains banter.
C4_UpsertNeverAborts ==
    (last.op = "update_claude_mcp_config" /\ IsJsonFile(last.pre.registryFile))
    => /\ last.ret.kind \in {"ok", "err"}
       /\ last.ret.kind = "ok" =>
             /\ IsJsonFile(registryFile)
             /\ HasKey(registryFile.doc, "mcpServers")
             /\ HasKey(registryFile.doc.o["mcpServers"], "banter")

\* C5: remove changes nothing but mcpServers.banter: no file stays no file; a
\* document without mcpServers.banter is written back equal; with banter, the
\* written document is the original less that one key.
C5_RemoveOnlyBanter ==
    last.op = "remove_claude_mcp_config"
    => /\ ~Exists(last.pre.registryFile) => last.ret = Ok(Unit) /\ registryFile = Absent
       /\ IsJsonFile(last.pre.registryFile) =>
             LET old == last.pre.registryFile.doc
             IN  /\ last.ret = Ok(Unit)
                 /\ IsJsonFile(registryFile)
                 /\ IF HasKey(old, "mcpServers") /\ HasKey(old.o["mcpServers"], "banter")
                    THEN /\ IsObj(registryFile.doc)
                         /\ DOMAIN registryFile.doc.o = DOMAIN old.o
                         /\ SameExcept(old.o, registryFile.doc.o, "mcpServers")
                         /\ IsObj(registryFile.doc.o["mcpServers"])
                         /\ DOMAIN registryFile.doc.o["mcpServers"].o
                               = (DOMAIN old.o["mcpServers"].o) \ {"banter"}
                         /\ SameExcept(old.o["mcpServers"].o, registryFile.doc.o["mcpServers"].o, "banter")
                    ELSE registryFile.doc = old

C5_Witness ==
    /\ last.op = "remove_claude_mcp_config"
    /\ IsJsonFile(last.pre.registryFile)
    /\ HasKey(last.pre.registryFile.doc, "otherSetting")
    /\ HasKey(Servers(last.pre.registryFile.doc), "other-tool")
    /\ HasKey(Servers(last.pre.registryFile.doc), "banter")
    /\ registryFile # last.pre.registryFile

\* C6: on a registry file that is not valid JSON, read and remove fail with the
\* parse error and leave the file alone, while upsert succeeds and overwrites
\* it with a document holding only mcpServers = {banter: the new entry}.
C6_BadJsonAsymmetry ==
    last.pre.registryFile = BadJson
    => /\ last.op \in {"get_claude_mcp_config", "remove_claude_mcp_config"} =>
             last.ret = Err("Failed to parse Claude config") /\ registryFile = BadJson
       /\ last.op = "update_claude_mcp_config" =>
             /\ last.ret = Ok(Unit)
             /\ IsJsonFile(registryFile)
             /\ IsObj(registryFile.doc)
             /\ DOMAIN registryFile.doc.o = {"mcpServers"}
             /\ IsObj(registryFile.doc.o["mcpServers"])
             /\ DOMAIN registryFile.doc.o["mcpServers"].o = {"banter"}
             /\ IsEntryFor(registryFile.doc.o["mcpServers"].o["banter"],
                           last.arg.channel, last.arg.mcp_server_path)

C6_Witness ==
    /\ last.pre.registryFile = BadJson
    /\ last.op = "update_claude_mcp_config"
    /\ last.ret = Ok(Unit)
    /\ registryFile # BadJson

-----------------------------------------------------------------------------
(* Properties of the local config store (under SpecConfig) *)

\* C2: a load_config that follows a successful save_config(c), with no write
\* in between, returns c field for field: the same channels in the same order,
\* the same active_channel_id, mcp_server_path and auto_start.
C2_SaveLoadRoundTrip ==
    (last.op = "load_config" /\ saved.some)
    => /\ last.ret.kind = "ok"
       /\ Len(last.ret.v.channels) = Len(saved.v.channels)
       /\ \A i \in 1..Len(saved.v.channels) :
             /\ last.ret.v.channels[i].id = saved.v.channels[i].id
             /\ last.ret.v.channels[i].name = saved.v.channels[i].name
             /\ last.ret.v.channels[i].unity_project_path = saved.v.channels[i].unity_project_path
             /\ last.ret.v.channels[i].scene_path = saved.v.channels[i].scene_path
             /\ last.ret.v.channels[i].enabled = saved.v.channels[i].enabled
       /\ last.ret.v.active_channel_id = saved.v.active_channel_id
       /\ last.ret.v.mcp_server_path = saved.v.mcp_server_path
       /\ last.ret.v.auto_start = saved.v.auto_start

C2_Witness ==
    /\ last.op = "load_config"
    /\ saved.some
    /\ Len(saved.v.channels) = 2
    /\ saved.v.channels[1].id # saved.v.channels[2].id
    /\ \E i \in 1..2 : ~saved.v.channels[i].scene_path.some
    /\ saved.v.active_channel_id = Some("no-such-channel")
    /\ last.ret.kind = "ok"

\* C8: with no config file, load_config succeeds with the defaults (no
\* channels, no active channel, the fixed default server path, auto_start
\* false) and there is still no config file afterwards, so the next load
\* returns the same defaults.
C8_LoadDefaultsCreatesNoFile ==
    (last.op = "load_config" /\ ~Exists(last.pre.configFile))
    => /\ last.ret.kind = "ok"
       /\ last.ret.v.channels = <<>>
       /\ last.ret.v.active_channel_id = None
       /\ last.ret.v.mcp_server_path = "C:/tools/banter-mcp/dist/index.js"
       /\ last.ret.v.auto_start = FALSE
       /\ ~Exists(configFile)

C8_Witness ==
    /\ last.op = "load_config"
    /\ last.pre.configDir = "absent"
    /\ ~Exists(last.pre.configFile)
    /\ configDir = "dir"
    /\ last.ret.kind = "ok"

-----------------------------------------------------------------------------
(* Properties of the channel builder (under SpecScene), stated on          *)
(* the path string itself                                                  *)

\* s without its trailing separators and "." components
RECURSIVE Clean(_)
Clean(s) ==
    IF s = <<>> \/ s = <<"/">> \/ s = <<".">> THEN s
    ELSE IF s[Len(s)] = "/" THEN Clean(SubSeq(s, 1, Len(s) - 1))
    ELSE IF Len(s) >= 2 /\ s[Len(s)] = "." /\ s[Len(s) - 1] = "/" THEN Clean(SubSeq(s, 1, Len(s) - 1))
    ELSE s

\* the name the path ends in is <non-empty stem>.unity
ExtensionIsUnity(s) ==
    LET t == Clean(s)
    IN  Len(t) >= 3 /\ t[Len(t)] = "unity" /\ t[Len(t) - 1] = "." /\ t[Len(t) - 2] # "/"

\* where a directory component named exactly Assets starts
AssetsDirs(s) ==
    {j \in 1..(Len(s) - 1) : s[j] = "Assets" /\ (j = 1 \/ s[j - 1] = "/") /\ s[j + 1] = "/"}

NearestAssets(s) == CHOOSE j \in AssetsDirs(s) : \A i \in AssetsDirs(s) : i <= j

ForwardSlashesOnly(s) == \A i \in 1..Len(s) : s[i] # "\\"

\* C3: add_channel decides in a fixed order: not-found error for a missing
\* path; else the extension error unless the extension is exactly unity; else
\* the no-Assets error unless some ancestor directory is named Assets; else a
\* channel with the given name, scene_path = the input, enabled, a non-empty
\* id and unity_project_path = the parent of the nearest Assets ancestor.  It
\* never writes the config file.
C3_AddChannelClassifies ==
    last.op = "add_channel"
    => /\ addRes = last.ret
       /\ configFile = last.pre.configFile
       /\ IF ~sceneExists THEN addRes = Err("Scene file does not exist")
          ELSE IF ~ExtensionIsUnity(scenePath)
          THEN addRes = Err("Not a valid Unity scene file (must be .unity)")
          ELSE IF AssetsDirs(scenePath) = {}
          THEN addRes = Err("Could not find Unity project root (no Assets folder in path)")
          ELSE /\ addRes.kind = "ok"
               /\ addRes.v.name = last.arg.name
               /\ addRes.v.scene_path = Some(scenePath)
               /\ addRes.v.enabled = TRUE
               /\ addRes.v.id # ""
               /\ addRes.v.unity_project_path
                     = Clean(SubSeq(scenePath, 1, NearestAssets(scenePath) - 1))

C3_Witness ==
    /\ last.op = "add_channel"
    /\ addRes.kind = "ok"
    /\ Cardinality(AssetsDirs(scenePath)) = 2
    /\ addRes.v.unity_project_path = <<"Assets">>
    /\ Exists(configFile)

\* C9: validate_unity_scene never fails, and answers true exactly when the
\* path exists, its extension is exactly unity, and the path with every
\* backslash turned into a slash contains /Assets/.
C9_ValidateIsThreeChecks ==
    valRes # NoCall
    => /\ valRes.kind = "ok"
       /\ valRes.v <=>
             /\ sceneExists
             /\ ExtensionIsUnity(scenePath)
             /\ \E i \in 1..(Len(scenePath) - 2) :
                   /\ scenePath[i] \in {"/", "\\"}
                   /\ scenePath[i + 1] = "Assets"
                   /\ scenePath[i + 2] \in {"/", "\\"}

C9_Witness ==
    /\ valRes = Ok(TRUE)
    /\ ~ForwardSlashesOnly(scenePath)
    /\ AssetsDirs(scenePath) = {}

\* C10 as stated: on a forward-slash path that validate_unity_scene accepts,
\* add_channel succeeds for every name and returns the proper prefix of the
\* path that ends immediately before the last /Assets/ in it.
C10_ProjectEndsBeforeSlashAssets ==
    (valRes = Ok(TRUE) /\ addRes # NoCall /\ ForwardSlashesOnly(scenePath))
    => /\ addRes.kind = "ok"
       /\ AssetsDirs(scenePath) # {}
       /\ LET proj == addRes.v.unity_project_path
              n == Len(proj)
              j == NearestAssets(scenePath)
          IN  /\ n < Len(scenePath)
              /\ SubSeq(scenePath, 1, n) = proj
              /\ n + 2 = j
              /\ scenePath[n + 1] = "/"

\* C10 as it holds: on a forward-slash path that validate_unity_scene accepts,
\* add_channel succeeds for every name and returns a proper prefix of the path
\* that ends before the last Assets/ directory component, with only separators
\* and "." components between them: none when the project is the root "/",
\* otherwise starting with a separator.
C10_ValidateImpliesAddChannel ==
    (valRes = Ok(TRUE) /\ addRes # NoCall /\ ForwardSlashesOnly(scenePath))
    => /\ addRes.kind = "ok"
       /\ AssetsDirs(scenePath) # {}
       /\ LET proj == addRes.v.unity_project_path
              n == Len(proj)
              j == NearestAssets(scenePath)
          IN  /\ n < Len(scenePath)
              /\ SubSeq(scenePath, 1, n) = proj
              /\ n < j
              /\ \A i \in (n + 1)..(j - 1) : scenePath[i] \in {"/", "."}
              /\ proj # <<>>
              /\ IF proj = <<"/">> THEN \A i \in 2..(j - 1) : scenePath[i] \in {"/", "."}
                 ELSE scenePath[n + 1] = "/" /\ proj[n] # "/"

C10_Witness ==
    /\ valRes = Ok(TRUE)
    /\ addRes.kind = "ok"
    /\ ForwardSlashesOnly(scenePath)
    /\ addRes.v.unity_project_path = <<"p", ".", "unity">>
    /\ NearestAssets(scenePath) = 5

-----------------------------------------------------------------------------
(* Failed commands and the file system (under Spec) *)

\* C7 as stated: whenever a command returns an error the file system is
\* exactly as it was before the call.
C7_NoPartialSuccess == last.ret.kind = "err" => FS = last.pre

\* C7 as it holds: a command that returns an error has changed no file and
\* created none, and has created no directory, except install_unity_extension:
\* it creates <project>/Assets/Editor before it copies, and that directory
\* stays when the copy fails because the source file is missing.
C7_FailedCallsKeepFiles ==
    last.ret.kind = "err"
    => IF last.op = "install_unity_extension" /\ last.ret.msg = "Failed to copy extension"
       THEN /\ ~Exists(srcFile)
            /\ last.pre.editorDir \in {"absent", "dir"}
            /\ FS = [last.pre EXCEPT !.editorDir = "dir"]
       ELSE FS = last.pre

C7_Witness ==
    /\ last.op = "install_unity_extension"
    /\ last.ret = Err("Failed to copy extension")
    /\ last.pre.editorDir = "absent"
    /\ editorDir = "dir"
    /\ destFile = last.pre.destFile

====
